---- MODULE Spec2Model ----
(***************************************************************************)
(* Model of atom-folding (src/src/main.ts): the FoldConsumer registry, the *)
(* per-editor EditorData override state, and the host events that drive    *)
(* them (editor opened, grammar changed, editor destroyed).                *)
(*                                                                         *)
(* A fold method is a JavaScript function reference.  It is modelled as a  *)
(* record [host, chain]:                                                   *)
(*   host  = <<e, s>>  the host's own method s of editor e, or <<>>        *)
(*   chain = the closures wrapped around it, outermost first; each closure *)
(*           is <<p, s, f>>: provider p's method s, f = the closure falls  *)
(*           back to the method it replaced.                               *)
(* A closure built with allowDefaultFolds keeps the method it replaced     *)
(* (the rest of the chain and the host); one built without it keeps        *)
(* nothing.  Two closures over the same provider, slot and captured        *)
(* original compare equal here although JavaScript would create two        *)
(* function objects.                                                       *)
(***************************************************************************)
EXTENDS Integers, Sequences, FiniteSets, TLC

VARIABLES editors, grammar, languageMode, observedEditors, providers, active,
          destroyCalls, last, teardown

vars == <<editors, grammar, languageMode, observedEditors, providers, active,
          destroyCalls, last, teardown>>

(* ------------------------------ bounds --------------------------------- *)
MaxDepth == 2
MaxScopes == 2

(* ----------------------------- universe -------------------------------- *)
Editors == {"e1", "e2"}
NoEditor == "none"
Scopes == {"k1", "k2"}
ProviderIds == {"pA", "pB"}
None == "undefined"
NotAString == "<non-string>"

Slots == {"isFoldableAtRow", "getFoldableRangeContainingPoint", "getFoldableRangesAtIndentLevel"}

\* FoldProvider.allowDefaultFolds?  and  FoldProvider.destroy?  of each provider object
allowDefaultFolds == [p \in ProviderIds |-> p = "pA"]
hasDestroy == [p \in ProviderIds |-> p = "pA"]

(* ----------------------------- methods --------------------------------- *)
HostMethod(e, s) == [host |-> <<e, s>>, chain |-> <<>>]
NoMethod == [host |-> <<>>, chain |-> <<>>]
IsClosure(m) == Len(m.chain) > 0
BoundProvider(m) == IF IsClosure(m) THEN m.chain[1][1] ELSE None
UndefinedMethods == [s \in Slots |-> NoMethod]

\* the closures of applyCustomFoldsProvider: with allowDefaultFolds the closure
\* captures the method that was live in its slot, without it only the provider
Closure_NoFallback(p, s, orig) == [host |-> <<>>, chain |-> <<<<p, s, FALSE>>>>]
Closure(p, s, orig) ==
  IF allowDefaultFolds[p]
    THEN [host |-> orig.host, chain |-> <<<<p, s, TRUE>>>> \o orig.chain]
    ELSE [host |-> <<>>, chain |-> <<<<p, s, FALSE>>>>]

\* What a call of method m returns, given what each provider's method returns
\* for the arguments (pr[p]) and what the host's own method s returns (hr[s]).
\* Results are "true"/"false" for isFoldableAtRow and "undefined"/"empty"/"ranges"
\* for the two range methods.  The isFoldableAtRow closure is
\* provider(..) || orig(..); the range closures return the provider's result
\* unless it is undefined.
Truthy(v) == v \notin {"false", "undefined"}
RECURSIVE Eval_EmptyFallsBack(_, _, _)
Eval_EmptyFallsBack(m, pr, hr) ==
  IF m.chain = <<>> THEN hr[m.host[2]]
  ELSE LET p == m.chain[1][1]
           orig == [host |-> m.host, chain |-> Tail(m.chain)]
       IN IF ~m.chain[1][3] THEN pr[p]
          ELSE IF pr[p] \notin {"false", "undefined", "empty"} THEN pr[p]
          ELSE Eval_EmptyFallsBack(orig, pr, hr)
RECURSIVE Eval(_, _, _)
Eval(m, pr, hr) ==
  IF m.chain = <<>> THEN hr[m.host[2]]
  ELSE LET p == m.chain[1][1]
           s == m.chain[1][2]
           orig == [host |-> m.host, chain |-> Tail(m.chain)]
       IN IF ~m.chain[1][3] THEN pr[p]
          ELSE IF s = "isFoldableAtRow"
            THEN (IF Truthy(pr[p]) THEN pr[p] ELSE Eval(orig, pr, hr))
            ELSE (IF pr[p] # "undefined" THEN pr[p] ELSE Eval(orig, pr, hr))

(* ----------------------------- EditorData ------------------------------ *)
\* An EditorData is [usingCustomFolds, originalFoldMethods]; the operators
\* below take the record d and the editor's languageMode lm and return the
\* pair [data, lm] after the call.

UpdateOriginalFoldMethods_NoAbort(d, lm) ==
  [data |-> [usingCustomFolds |-> FALSE,
             originalFoldMethods |-> [s \in Slots |-> lm["isFoldableAtRow"]]],
   lm |-> lm]
UpdateOriginalFoldMethods_AbortResets(d, lm) ==
  IF d.originalFoldMethods # UndefinedMethods /\ d.usingCustomFolds
    THEN [data |-> [d EXCEPT !.usingCustomFolds = FALSE], lm |-> lm]
    ELSE [data |-> [usingCustomFolds |-> FALSE,
                    originalFoldMethods |-> [s \in Slots |-> lm["isFoldableAtRow"]]],
          lm |-> lm]
UpdateOriginalFoldMethods(d, lm) ==
  IF d.originalFoldMethods # UndefinedMethods /\ d.usingCustomFolds
    THEN [data |-> d, lm |-> lm]
    ELSE [data |-> [usingCustomFolds |-> FALSE,
                    originalFoldMethods |-> [s \in Slots |-> lm["isFoldableAtRow"]]],
          lm |-> lm]

RestoreOriginalFolds_NoGuard(d, lm) ==
  IF d.originalFoldMethods = UndefinedMethods
    THEN [data |-> d, lm |-> lm]
    ELSE [data |-> [d EXCEPT !.usingCustomFolds = FALSE],
          lm |-> [s \in Slots |-> d.originalFoldMethods[s]]]
RestoreOriginalFolds(d, lm) ==
  IF ~d.usingCustomFolds \/ d.originalFoldMethods = UndefinedMethods
    THEN [data |-> d, lm |-> lm]
    ELSE [data |-> [d EXCEPT !.usingCustomFolds = FALSE],
          lm |-> [s \in Slots |-> d.originalFoldMethods[s]]]

ApplyCustomFoldsProvider(d, lm, p) ==
  LET d1 == IF ~d.usingCustomFolds THEN UpdateOriginalFoldMethods(d, lm).data ELSE d
  IN [data |-> [d1 EXCEPT !.usingCustomFolds = TRUE],
      lm |-> [s \in Slots |-> Closure(p, s, lm[s])]]

\* constructor
NewEditorData(lm) ==
  UpdateOriginalFoldMethods([usingCustomFolds |-> FALSE,
                             originalFoldMethods |-> UndefinedMethods], lm).data

\* deactivate(): restoreOriginalFolds(), then destroy() (disposes the subscriptions)
EditorDataDeactivate_NoRestore(d, lm) == [data |-> d, lm |-> lm]
EditorDataDeactivate(d, lm) == RestoreOriginalFolds(d, lm)

(* ----------------------------- FoldConsumer ---------------------------- *)
\* the observeGrammar callback
OnGrammar_KeepOverride(d, lm, scopeName, provs) ==
  IF provs[scopeName] = None
    THEN UpdateOriginalFoldMethods(d, lm)
    ELSE IF d.usingCustomFolds THEN [data |-> d, lm |-> lm]
    ELSE ApplyCustomFoldsProvider(d, lm, provs[scopeName])
OnGrammar(d, lm, scopeName, provs) ==
  IF provs[scopeName] = None
    THEN UpdateOriginalFoldMethods(d, lm)
    ELSE ApplyCustomFoldsProvider(d, lm, provs[scopeName])

\* the atom.textEditors.observe callback for one editor: createEditorData,
\* then observeGrammar calls its callback at once with the current grammar
OnObserve(lm, scopeName, provs) == OnGrammar(NewEditorData(lm), lm, scopeName, provs)

Tracked == DOMAIN observedEditors
OpenEditors == {e \in Editors : editors[e] = "open"}

Depth(lm) == Len(lm["isFoldableAtRow"].chain)

Overridden == {e \in Tracked : observedEditors[e].usingCustomFolds}

\* last: the handler that ran in the step just taken; the editor and scope name
\* of a host event; for consumeFoldProvider the payload object, whether it was
\* well formed and the scope names it carried; and the editors whose EditorData
\* had usingCustomFolds set before the step
Record(op, e, k, p, ok, ks) ==
  [op |-> op, ed |-> e, key |-> k, provider |-> p, wellFormed |-> ok, keys |-> ks,
   preOverridden |-> Overridden]
Event(op, e, k) == Record(op, e, k, None, FALSE, {})

\* destroyCalls[p]: the number of p.destroy() calls made by the step just taken
NoCalls == [p \in ProviderIds |-> 0]

\* teardown: where a deactivate() that is followed statement by statement
\* stands (SpecTD); Idle while no deactivate() is running
Idle == [pc |-> "idle", tracked |-> {}, wasOverridden |-> {}, editorsLeft |-> {}, keysLeft |-> {}]

Init ==
  /\ editors = [e \in Editors |-> "none"]
  /\ grammar = [e \in Editors |-> "k1"]
  /\ languageMode = [e \in Editors |-> [s \in Slots |-> HostMethod(e, s)]]
  /\ observedEditors = <<>>
  /\ providers = [k \in Scopes |-> None]
  /\ active = FALSE
  /\ destroyCalls = NoCalls
  /\ teardown = Idle
  /\ last = [op |-> "init", ed |-> NoEditor, key |-> None, provider |-> None,
             wellFormed |-> FALSE, keys |-> {}, preOverridden |-> {}]

\* activate(): subscribes to atom.textEditors.observe, which replays every open editor
Activate ==
  /\ teardown.pc = "idle"
  /\ ~active
  /\ active' = TRUE
  /\ LET r == [e \in OpenEditors |-> OnObserve(languageMode[e], grammar[e], providers)]
     IN /\ observedEditors' = [e \in OpenEditors |-> r[e].data]
        /\ languageMode' = [e \in Editors |-> IF e \in OpenEditors THEN r[e].lm ELSE languageMode[e]]
  /\ last' = Event("activate", NoEditor, None)
  /\ destroyCalls' = NoCalls
  /\ UNCHANGED <<editors, grammar, providers, teardown>>

\* the host opens editor e with grammar k; when active the observe callback runs
OpenEditor(e, k) ==
  /\ teardown.pc = "idle"
  /\ editors[e] = "none"
  /\ editors' = [editors EXCEPT ![e] = "open"]
  /\ grammar' = [grammar EXCEPT ![e] = k]
  /\ IF active
       THEN LET r == OnObserve(languageMode[e], k, providers)
            IN /\ observedEditors' = (e :> r.data) @@ observedEditors
               /\ languageMode' = [languageMode EXCEPT ![e] = r.lm]
       ELSE UNCHANGED <<observedEditors, languageMode>>
  /\ last' = Event("open", e, k)
  /\ destroyCalls' = NoCalls
  /\ UNCHANGED <<providers, active, teardown>>

\* the host reports a (re)computed grammar of editor e
ChangeGrammar(e, k) ==
  /\ teardown.pc = "idle"
  /\ editors[e] = "open"
  /\ grammar' = [grammar EXCEPT ![e] = k]
  /\ IF e \in Tracked
       THEN LET r == OnGrammar(observedEditors[e], languageMode[e], k, providers)
            IN /\ Depth(r.lm) <= MaxDepth
               /\ observedEditors' = [observedEditors EXCEPT ![e] = r.data]
               /\ languageMode' = [languageMode EXCEPT ![e] = r.lm]
       ELSE UNCHANGED <<observedEditors, languageMode>>
  /\ last' = Event("grammar", e, k)
  /\ destroyCalls' = NoCalls
  /\ UNCHANGED <<editors, providers, active, teardown>>

\* the host destroys editor e; the onDidDestroy callback: editorData.destroy(),
\* observedEditors.delete(editor)
DestroyEditor_KeepRecord(e) ==
  /\ teardown.pc = "idle"
  /\ editors[e] = "open"
  /\ editors' = [editors EXCEPT ![e] = "destroyed"]
  /\ last' = Event("destroy", e, None)
  /\ destroyCalls' = NoCalls
  /\ UNCHANGED <<grammar, languageMode, observedEditors, providers, active, teardown>>
DestroyEditor(e) ==
  /\ teardown.pc = "idle"
  /\ editors[e] = "open"
  /\ editors' = [editors EXCEPT ![e] = "destroyed"]
  /\ observedEditors' = [x \in Tracked \ {e} |-> observedEditors[x]]
  /\ last' = Event("destroy", e, None)
  /\ destroyCalls' = NoCalls
  /\ UNCHANGED <<grammar, languageMode, providers, active, teardown>>

\* deactivate(): dispose the observe subscription, deactivate every EditorData,
\* clear the map, then call destroy() once per entry of the providers map
Deactivate ==
  /\ teardown.pc = "idle"
  /\ active
  /\ active' = FALSE
  /\ languageMode' = [e \in Editors |->
        IF e \in Tracked THEN EditorDataDeactivate(observedEditors[e], languageMode[e]).lm
                         ELSE languageMode[e]]
  /\ observedEditors' = <<>>
  /\ destroyCalls' = [p \in ProviderIds |->
        IF hasDestroy[p] THEN Cardinality({k \in Scopes : providers[k] = p}) ELSE 0]
  /\ last' = Event("deactivate", NoEditor, None)
  /\ UNCHANGED <<editors, grammar, providers, teardown>>

\* the values payload.scope can take: falsy (undefined, ""), a string, an
\* array whose elements are strings or not, anything else (a number, an object)
ScopeArrays == UNION {[1..n -> Scopes \cup {NotAString}] : n \in 0..MaxScopes}
ScopeValues ==
  {[type |-> "falsy", val |-> <<>>], [type |-> "other", val |-> <<>>]}
  \cup {[type |-> "string", val |-> <<k>>] : k \in Scopes}
  \cup {[type |-> "array", val |-> a] : a \in ScopeArrays}
WellFormed(payload) ==
  /\ payload.hasMethods
  /\ payload.scope.type \in {"string", "array"}
StringKeys(payload) ==
  IF WellFormed(payload)
    THEN {payload.scope.val[i] : i \in DOMAIN payload.scope.val} \ {NotAString}
    ELSE {}
\* the payloads tried: every provider with every scope value, and a payload
\* that lacks one of the three operations with every scope value of at most
\* one element
Payloads ==
  [provider : ProviderIds, hasMethods : {TRUE}, scope : ScopeValues]
  \cup [provider : {"pB"}, hasMethods : {FALSE},
        scope : {v \in ScopeValues : Len(v.val) <= 1}]

\* the body of scopes.forEach for one scope, on st = [providers, oe, lm]
ApplyToOpen_AnyGrammar(st, scope, foldProvider, openEditors, gram) ==
  LET r == [e \in DOMAIN st.oe |->
              IF e \in openEditors THEN ApplyCustomFoldsProvider(st.oe[e], st.lm[e], foldProvider)
                                   ELSE [data |-> st.oe[e], lm |-> st.lm[e]]]
  IN [providers |-> [st.providers EXCEPT ![scope] = foldProvider],
      oe |-> [e \in DOMAIN st.oe |-> r[e].data],
      lm |-> [e \in DOMAIN st.lm |-> IF e \in DOMAIN st.oe THEN r[e].lm ELSE st.lm[e]]]
ApplyToOpen(st, scope, foldProvider, openEditors, gram) ==
  LET hit(e) == e \in openEditors /\ gram[e] = scope /\ e \in DOMAIN st.oe
      r == [e \in DOMAIN st.oe |->
              IF hit(e) THEN ApplyCustomFoldsProvider(st.oe[e], st.lm[e], foldProvider)
                        ELSE [data |-> st.oe[e], lm |-> st.lm[e]]]
  IN [providers |-> [st.providers EXCEPT ![scope] = foldProvider],
      oe |-> [e \in DOMAIN st.oe |-> r[e].data],
      lm |-> [e \in DOMAIN st.lm |-> IF e \in DOMAIN st.oe THEN r[e].lm ELSE st.lm[e]]]
ConsumeScope_Overwrite(st, scope, foldProvider, openEditors, gram) ==
  IF scope = NotAString THEN st
  ELSE ApplyToOpen(st, scope, foldProvider, openEditors, gram)
ConsumeScope_NoReconcile(st, scope, foldProvider, openEditors, gram) ==
  IF scope = NotAString THEN st
  ELSE IF st.providers[scope] # None THEN st
  ELSE [st EXCEPT !.providers[scope] = foldProvider]
ConsumeScope(st, scope, foldProvider, openEditors, gram) ==
  IF scope = NotAString THEN st
  ELSE IF st.providers[scope] # None THEN st
  ELSE ApplyToOpen(st, scope, foldProvider, openEditors, gram)

RECURSIVE ForEachScope(_, _, _, _, _)
ForEachScope(st, scopes, foldProvider, openEditors, gram) ==
  IF scopes = <<>> THEN st
  ELSE ForEachScope(ConsumeScope(st, Head(scopes), foldProvider, openEditors, gram),
                    Tail(scopes), foldProvider, openEditors, gram)

\* consumeFoldProvider(payload) as a function of the registry state
ConsumeResult_NoMethodCheck(st, payload, openEditors, gram) ==
  IF payload.scope.type \notin {"string", "array"} THEN st
  ELSE ForEachScope(st, payload.scope.val, payload.provider, openEditors, gram)
ConsumeResult(st, payload, openEditors, gram) ==
  IF ~payload.hasMethods \/ payload.scope.type = "falsy" THEN st
  ELSE IF payload.scope.type \notin {"string", "array"} THEN st
  ELSE ForEachScope(st, payload.scope.val, payload.provider, openEditors, gram)

ConsumeFoldProvider(payload) ==
  /\ teardown.pc = "idle"
  /\ active
  /\ LET st == ConsumeResult([providers |-> providers, oe |-> observedEditors, lm |-> languageMode],
                             payload, OpenEditors, grammar)
     IN /\ \A e \in Editors : Depth(st.lm[e]) <= MaxDepth
        /\ providers' = st.providers
        /\ observedEditors' = st.oe
        /\ languageMode' = st.lm
  /\ last' = Record("consume", NoEditor, None, payload.provider, WellFormed(payload),
                  StringKeys(payload))
  /\ destroyCalls' = NoCalls
  /\ UNCHANGED <<editors, grammar, active, teardown>>

(* ------------- EditorData driven directly, method by method ----------- *)
\* Every editor is open and has a fresh EditorData; the three methods of
\* EditorData are then called in any order.
InitED ==
  /\ editors = [e \in Editors |-> "open"]
  /\ grammar \in [Editors -> Scopes]
  /\ languageMode = [e \in Editors |-> [s \in Slots |-> HostMethod(e, s)]]
  /\ observedEditors = [e \in Editors |-> NewEditorData(languageMode[e])]
  /\ providers = [k \in Scopes |-> None]
  /\ active = TRUE
  /\ destroyCalls = NoCalls
  /\ teardown = Idle
  /\ last = [op |-> "init", ed |-> NoEditor, key |-> None, provider |-> None,
             wellFormed |-> FALSE, keys |-> {}, preOverridden |-> {}]

EDStep(e, r, op, p) ==
  /\ observedEditors' = [observedEditors EXCEPT ![e] = r.data]
  /\ languageMode' = [languageMode EXCEPT ![e] = r.lm]
  /\ last' = Record(op, e, None, p, FALSE, {})
  /\ UNCHANGED <<editors, grammar, providers, active, destroyCalls, teardown>>

EDUpdate(e) == EDStep(e, UpdateOriginalFoldMethods(observedEditors[e], languageMode[e]), "update", None)
EDRestore(e) == EDStep(e, RestoreOriginalFolds(observedEditors[e], languageMode[e]), "restore", None)
EDApply(e, p) ==
  LET r == ApplyCustomFoldsProvider(observedEditors[e], languageMode[e], p)
  IN Depth(r.lm) <= MaxDepth /\ EDStep(e, r, "apply", p)

NextED ==
  \/ \E e \in Editors : EDUpdate(e)
  \/ \E e \in Editors : EDRestore(e)
  \/ \E e \in Editors, p \in ProviderIds : EDApply(e, p)

SpecED == InitED /\ [][NextED]_vars

(* ------------- deactivate() followed statement by statement ------------ *)
\* The handlers run to completion one after the other; here deactivate() is
\* split at its statements, and no other handler runs before it has ended.
Finished(op) == [Event(op, NoEditor, None) EXCEPT !.preOverridden = teardown.wasOverridden]

\* this.subscriptions.dispose()
TDBegin ==
  /\ teardown.pc = "idle"
  /\ active
  /\ active' = FALSE
  /\ teardown' = [pc |-> "editors", tracked |-> Tracked, wasOverridden |-> Overridden,
                  editorsLeft |-> Tracked, keysLeft |-> {k \in Scopes : providers[k] # None}]
  /\ destroyCalls' = NoCalls
  /\ last' = Event("deactivating", NoEditor, None)
  /\ UNCHANGED <<editors, grammar, languageMode, observedEditors, providers>>

\* one turn of observedEditors.forEach(data => data.deactivate())
TDEditor(e) ==
  /\ teardown.pc = "editors"
  /\ e \in teardown.editorsLeft
  /\ LET r == EditorDataDeactivate(observedEditors[e], languageMode[e])
     IN /\ observedEditors' = [observedEditors EXCEPT ![e] = r.data]
        /\ languageMode' = [languageMode EXCEPT ![e] = r.lm]
  /\ teardown' = [teardown EXCEPT !.editorsLeft = @ \ {e}]
  /\ last' = Event("deactivating", e, None)
  /\ UNCHANGED <<editors, grammar, providers, active, destroyCalls>>

\* this.observedEditors.clear(); deactivate() ends here when the providers map is empty
TDClear ==
  /\ teardown.pc = "editors"
  /\ teardown.editorsLeft = {}
  /\ observedEditors' = <<>>
  /\ IF teardown.keysLeft = {}
       THEN teardown' = Idle /\ last' = Finished("deactivate")
       ELSE teardown' = [teardown EXCEPT !.pc = "providers"]
            /\ last' = Event("deactivating", NoEditor, None)
  /\ UNCHANGED <<editors, grammar, languageMode, providers, active, destroyCalls>>

\* one turn of this.providers.forEach: the entry of scope name k
TDDestroy(k) ==
  /\ teardown.pc = "providers"
  /\ k \in teardown.keysLeft
  /\ destroyCalls' = [destroyCalls EXCEPT ![providers[k]] = IF hasDestroy[providers[k]] THEN @ + 1 ELSE @]
  /\ IF teardown.keysLeft = {k}
       THEN teardown' = Idle /\ last' = Finished("deactivate")
       ELSE teardown' = [teardown EXCEPT !.keysLeft = @ \ {k}]
            /\ last' = Record("deactivating", NoEditor, k, providers[k], FALSE, {})
  /\ UNCHANGED <<editors, grammar, languageMode, observedEditors, providers, active>>

NextTD ==
  \/ Activate
  \/ \E e \in Editors, k \in Scopes : OpenEditor(e, k)
  \/ \E e \in Editors, k \in Scopes : ChangeGrammar(e, k)
  \/ \E e \in Editors : DestroyEditor(e)
  \/ \E payload \in Payloads : ConsumeFoldProvider(payload)
  \/ TDBegin
  \/ \E e \in Editors : TDEditor(e)
  \/ TDClear
  \/ \E k \in Scopes : TDDestroy(k)

SpecTD == Init /\ [][NextTD]_vars

Next ==
  \/ Activate
  \/ Deactivate
  \/ \E e \in Editors, k \in Scopes : OpenEditor(e, k)
  \/ \E e \in Editors, k \in Scopes : ChangeGrammar(e, k)
  \/ \E e \in Editors : DestroyEditor(e)
  \/ \E payload \in Payloads : ConsumeFoldProvider(payload)

Spec == Init /\ [][Next]_vars

(* =============================== claims ================================ *)
Data(e) == observedEditors[e]
NoClosureLive(e) == \A s \in Slots : ~IsClosure(languageMode[e][s])
DispatchesTo(e, p) == \A s \in Slots : IsClosure(languageMode[e][s]) /\ languageMode[e][s].chain[1][1] = p /\ languageMode[e][s].chain[1][2] = s

\* C1: after a grammar event whose scope name has no provider, the editor is
\* not overridden: usingCustomFolds is false and no live fold method is a
\* provider closure, whatever the editor's state was before.
C1_UnclaimedKeyLeavesDefaults ==
  (last.op \in {"open", "grammar"} /\ last.ed \in Tracked /\ providers[last.key] = None)
    => (~Data(last.ed).usingCustomFolds /\ NoClosureLive(last.ed))

\* C2: after every handler, each tracked editor whose current scope name has a
\* provider P is overridden and each of its three live methods is the closure
\* of that slot bound to P.
C2_ClaimedKeyOverridden ==
  \A e \in Tracked :
    providers[grammar[e]] # None
      => (Data(e).usingCustomFolds /\ DispatchesTo(e, providers[grammar[e]]))

\* an editor overridden by one provider was reclassified to a scope of another
C2_Witness ==
  /\ last.op = "grammar"
  /\ last.ed \in Tracked
  /\ last.ed \in last.preOverridden
  /\ providers[last.key] = "pA"
  /\ Len(languageMode[last.ed]["isFoldableAtRow"].chain) = 2
  /\ languageMode[last.ed]["isFoldableAtRow"].chain[2][1] = "pB"

\* C3: for an editor that is not overridden, applyCustomFoldsProvider followed
\* at once by restoreOriginalFolds leaves each of the three live methods equal
\* to the method that was in that slot before.
C3_ApplyThenRestore ==
  [][(last'.op = "apply" /\ last'.ed \notin last'.preOverridden)
       => RestoreOriginalFolds(observedEditors'[last'.ed], languageMode'[last'.ed]).lm
            = languageMode[last'.ed]]_vars

\* C4: after the destruction of an editor none of its live methods is a
\* provider closure.
C4_DestroyedNotOverridden ==
  last.op = "destroy" => NoClosureLive(last.ed)

\* C5: one deactivate() calls destroy() exactly once on every provider object
\* of the providers map that has a destroy operation.
C5_DestroyOncePerProvider ==
  last.op = "deactivate"
    => \A p \in ProviderIds :
         (hasDestroy[p] /\ \E k \in Scopes : providers[k] = p) => destroyCalls[p] = 1

\* C6: a provider stored under a scope name is never replaced, and after every
\* step each tracked editor of that scope name dispatches to it.
C6_FirstRegistrationWins ==
  [][\A k \in Scopes :
       providers[k] # None
         => /\ providers'[k] = providers[k]
            /\ \A e \in DOMAIN observedEditors' :
                 grammar'[e] = k
                   => \A s \in Slots : BoundProvider(languageMode'[e][s]) = providers[k]]_vars

\* a second provider was offered for a scope name that another provider holds,
\* while an editor of that scope name is open
C6_Witness ==
  /\ last.op = "consume"
  /\ \E k \in last.keys :
       /\ providers[k] \notin {None, last.provider}
       /\ \E e \in Tracked : grammar[e] = k

\* C7: a grammar event for a scope name without provider leaves an editor that
\* was not overridden not overridden; an editor becomes overridden only when
\* its scope name has a provider; and when consumeFoldProvider returns, every
\* tracked editor whose scope name was claimed by that call is overridden with
\* the provider of the call.
C7_LateRegistration ==
  [][/\ (last'.op \in {"open", "grammar"} /\ providers[last'.key] = None
           /\ last'.ed \in DOMAIN observedEditors' /\ last'.ed \notin Overridden)
          => /\ ~observedEditors'[last'.ed].usingCustomFolds
             /\ \A s \in Slots : ~IsClosure(languageMode'[last'.ed][s])
     /\ \A e \in DOMAIN observedEditors' :
          (e \notin Overridden /\ observedEditors'[e].usingCustomFolds)
            => providers'[grammar'[e]] # None
     /\ \A k \in Scopes :
          (providers[k] = None /\ providers'[k] # None)
            => /\ last'.op = "consume" /\ providers'[k] = last'.provider
               /\ \A e \in DOMAIN observedEditors' :
                    grammar'[e] = k
                      => /\ observedEditors'[e].usingCustomFolds
                         /\ \A s \in Slots : BoundProvider(languageMode'[e][s]) = providers'[k]]_vars

\* a registration overrode two open editors that were not overridden
C7_Witness ==
  /\ last.op = "consume"
  /\ Tracked = Editors
  /\ last.preOverridden = {}
  /\ Overridden = Editors

\* C8: for an editor overridden from its default state, the installed
\* isFoldableAtRow returns (provider result) or (original result) when the
\* provider has allowDefaultFolds, and the provider result otherwise, for
\* every pair of results.
Bools == {"true", "false"}
Or(a, b) == IF a = "true" \/ b = "true" THEN "true" ELSE "false"
C8_AllowDefaultFoldsFallback ==
  \A e \in Overridden \ last.preOverridden :
    LET m == languageMode[e]["isFoldableAtRow"]
        p == providers[grammar[e]]
        o == Data(e).originalFoldMethods["isFoldableAtRow"]
    IN /\ p # None
       /\ \A pr \in [ProviderIds -> Bools], hr \in [Slots -> Bools] :
            Eval(m, pr, hr) = IF allowDefaultFolds[p] THEN Or(pr[p], Eval(o, pr, hr)) ELSE pr[p]

C8_Witness ==
  /\ Editors \subseteq Overridden \ last.preOverridden
  /\ \E e1, e2 \in Editors : /\ allowDefaultFolds[providers[grammar[e1]]]
                             /\ ~allowDefaultFolds[providers[grammar[e2]]]

\* C9: after a call of restoreOriginalFolds a second call changes neither the
\* live methods nor the snapshot nor usingCustomFolds, and a call on an editor
\* that is not overridden changes nothing.
C9_IdempotentRestore ==
  [][last'.op = "restore"
       => /\ RestoreOriginalFolds(observedEditors'[last'.ed], languageMode'[last'.ed])
               = [data |-> observedEditors'[last'.ed], lm |-> languageMode'[last'.ed]]
          /\ last'.ed \notin Overridden
               => (observedEditors' = observedEditors /\ languageMode' = languageMode)]_vars

\* a restore that ran on an overridden editor
C9_Witness ==
  /\ last.op = "restore"
  /\ last.ed \in last.preOverridden
  /\ ~Data(last.ed).usingCustomFolds

\* C10: a malformed payload adds no provider and changes no editor; a
\* non-string element of a scope list is skipped, the other elements are
\* handled as if it were not there.
RECURSIVE OnlyStrings(_)
OnlyStrings(seq) ==
  IF seq = <<>> THEN <<>>
  ELSE IF Head(seq) = NotAString THEN OnlyStrings(Tail(seq))
  ELSE <<Head(seq)>> \o OnlyStrings(Tail(seq))
C10_MalformedPayloadRejected ==
  /\ [][(last'.op = "consume" /\ ~last'.wellFormed)
          => (providers' = providers /\ observedEditors' = observedEditors
              /\ languageMode' = languageMode)]_vars
  /\ [](\A payload \in {q \in Payloads : \E i \in DOMAIN q.scope.val : q.scope.val[i] = NotAString} :
          LET st == [providers |-> providers, oe |-> observedEditors, lm |-> languageMode]
          IN ConsumeResult(st, payload, OpenEditors, grammar)
               = ConsumeResult(st, [payload EXCEPT !.scope.val = OnlyStrings(@)],
                               OpenEditors, grammar))

\* a payload without the three operations, or without usable scope, was
\* offered while an editor of an unclaimed scope name is open
C10_Witness ==
  /\ last.op = "consume"
  /\ ~last.wellFormed
  /\ \E e \in Tracked : providers[grammar[e]] = None

\* C11: after deactivate() the providers map is empty, so no provider stored
\* before it is found by a grammar event after a later activate().
C11_TeardownClearsProviders ==
  last.op = "deactivate" => \A k \in Scopes : providers[k] = None

\* C12: for every tracked editor: usingCustomFolds implies the snapshot is
\* populated and the three live methods are closures; otherwise each live
\* method equals the snapshot's method of the same slot.
C12_StateRecordInvariant ==
  \A e \in Tracked :
    IF Data(e).usingCustomFolds
      THEN /\ Data(e).originalFoldMethods # UndefinedMethods
           /\ \A s \in Slots : IsClosure(languageMode[e][s])
      ELSE \A s \in Slots : languageMode[e][s] = Data(e).originalFoldMethods[s]

\* C13: the method a fallback closure falls back to is never a closure of an
\* earlier override, and for isFoldableAtRow it is the snapshot's method.
Fallback(m) == [host |-> m.host, chain |-> Tail(m.chain)]
C13_FallbackIsOriginal ==
  \A e \in Overridden : \A s \in Slots :
    LET m == languageMode[e][s]
    IN (IsClosure(m) /\ m.chain[1][3])
         => /\ ~IsClosure(Fallback(m))
            /\ s = "isFoldableAtRow" => Fallback(m) = Data(e).originalFoldMethods[s]

\* C14: a range method installed with allowDefaultFolds returns the provider's
\* result unless that result is undefined, and only then the result of the
\* method it replaced; an empty sequence from the provider is returned as is.
RangeSlots == Slots \ {"isFoldableAtRow"}
RangeResults == {"undefined", "empty", "ranges"}
HostResult == [s \in Slots |-> s]
C14_RangeFallbackOnlyIfUndefined ==
  [][\A e \in DOMAIN observedEditors' :
       (observedEditors'[e].usingCustomFolds /\ languageMode'[e] # languageMode[e])
         => LET p == providers'[grammar'[e]]
            IN (p # None /\ allowDefaultFolds[p])
                 => \A s \in RangeSlots, pr \in [ProviderIds -> RangeResults] :
                      Eval(languageMode'[e][s], pr, HostResult)
                        = IF pr[p] = "undefined"
                            THEN Eval(languageMode[e][s], pr, HostResult)
                            ELSE pr[p]]_vars

\* an editor with its own host methods was overridden by a provider with
\* allowDefaultFolds
C14_Witness ==
  /\ last.op \in {"open", "grammar", "consume", "activate"}
  /\ \E e \in Overridden \ last.preOverridden :
       /\ allowDefaultFolds[providers[grammar[e]]]
       /\ \A s \in RangeSlots : Fallback(languageMode[e][s]) = HostMethod(e, s)

\* C15: updateOriginalFoldMethods called on an EditorData that has a snapshot
\* and usingCustomFolds set leaves the snapshot, the flag and the three live
\* methods as they were.
C15_CaptureWhileOverriddenAborts ==
  [][(last'.op = "update" /\ last'.ed \in Overridden
        /\ observedEditors[last'.ed].originalFoldMethods # UndefinedMethods)
       => (observedEditors' = observedEditors /\ languageMode' = languageMode)]_vars

C15_Witness ==
  /\ last.op = "update"
  /\ last.ed \in last.preOverridden
  /\ Data(last.ed).usingCustomFolds

\* C16: in deactivate() no provider's destroy() runs before every EditorData
\* is deactivated and the map is cleared; while the providers are destroyed no
\* editor that was tracked when deactivate() began has a provider closure as a
\* live method; and after deactivate() no editor is tracked.
C16_TeardownOrdering ==
  /\ teardown.pc = "editors" => destroyCalls = NoCalls
  /\ (teardown.pc = "providers" \/ last.op = "deactivate")
       => /\ Tracked = {}
          /\ \A e \in teardown.tracked : NoClosureLive(e)
  /\ last.op = "deactivate"
       => \A e \in last.preOverridden : NoClosureLive(e)

\* destroy() of pA has run in a deactivate() that began with an overridden editor
C16_Witness ==
  /\ teardown.pc = "providers"
  /\ teardown.wasOverridden # {}
  /\ destroyCalls["pA"] >= 1

\* C17: a destroyed editor has no EditorData, and no later step changes its
\* live methods or gives it an EditorData again.
C17_DestroyedIsTerminal ==
  [][\A e \in Editors :
       editors'[e] = "destroyed"
         => /\ e \notin DOMAIN observedEditors'
            /\ languageMode'[e] = languageMode[e]
            /\ editors[e] = "destroyed"
                 => (grammar'[e] = grammar[e] /\ e \notin DOMAIN observedEditors)]_vars

\* a provider claimed the scope name of a destroyed editor and overrode the
\* open editor of that scope name
C17_Witness ==
  /\ last.op = "consume"
  /\ \E e \in Editors, x \in Overridden \ last.preOverridden :
       /\ editors[e] = "destroyed"
       /\ grammar[x] = grammar[e]
       /\ grammar[e] \in last.keys

\* C18: consumeFoldProvider changes EditorData and live methods only of
\* tracked editors whose scope name the call newly claims; it stores its
\* provider under every scope name of the call that was unclaimed and leaves
\* every other entry of the providers map as it was.
NewlyClaimed == {k \in Scopes : providers[k] = None /\ providers'[k] # None}
C18_RegisterFrame ==
  [][last'.op = "consume"
       => /\ DOMAIN observedEditors' = Tracked
          /\ \A e \in Editors :
               (e \notin Tracked \/ grammar[e] \notin NewlyClaimed)
                 => /\ languageMode'[e] = languageMode[e]
                    /\ e \in Tracked => observedEditors'[e] = observedEditors[e]
          /\ \A k \in Scopes :
               providers'[k] = IF providers[k] = None /\ k \in last'.keys
                                 THEN last'.provider ELSE providers[k]
          /\ \A e \in Tracked :
               grammar[e] \in NewlyClaimed
                 => /\ observedEditors'[e].usingCustomFolds
                    /\ \A s \in Slots : BoundProvider(languageMode'[e][s]) = last'.provider]_vars

\* one call carried a scope name held by another provider and an unclaimed
\* one, with a tracked editor of each
C18_Witness ==
  /\ last.op = "consume"
  /\ \E k1, k2 \in last.keys, e1, e2 \in Tracked :
       /\ providers[k1] # last.provider
       /\ providers[k2] = last.provider
       /\ grammar[e1] = k1
       /\ grammar[e2] = k2
       /\ e2 \in Overridden \ last.preOverridden

\* C19: the snapshot of a tracked editor never holds a closure, and its
\* isFoldableAtRow entry is the host's isFoldableAtRow of that editor.
C19_SnapshotIsHostMethod ==
  \A e \in Tracked :
    /\ \A s \in Slots : ~IsClosure(Data(e).originalFoldMethods[s])
    /\ Data(e).originalFoldMethods["isFoldableAtRow"] = HostMethod(e, "isFoldableAtRow")

\* an editor that was overridden and restored by a deactivate() is tracked and
\* overridden again after a later activate()
C19_Witness ==
  /\ last.op = "activate"
  /\ \E e \in Overridden :
       Fallback(languageMode[e]["getFoldableRangeContainingPoint"]) = HostMethod(e, "isFoldableAtRow")

====
